---------------------------- MODULE Spec2Model ----------------------------
(***************************************************************************)
(* The change-notification engine of src/git/models/repository.ts: the     *)
(* classifier (onRepositoryChanged), the debounced coalescers (fireChange, *)
(* fireChangeCore, fireFileSystemChange, fireFileSystemChangeCore), the    *)
(* suspend/resume gate and the caches the classifier invalidates.          *)
(*                                                                         *)
(* Time is explicit: a debounced function holds the time left until its    *)
(* callback runs, Advance lets time pass, and time never passes a moment   *)
(* at which a callback is due (timers run on time).                        *)
(***************************************************************************)
EXTENDS Integers, Sequences, FiniteSets, TLC

(***************************************************************************)
(* Program constants and model bounds                                      *)
(***************************************************************************)

\* Functions.debounce(this.fireChangeCore.bind(this), 250)
ChangeWait == 250

\* Functions.debounce(this.fireFileSystemChangeCore.bind(this), 2500)
FileSystemWait == 2500

\* The clock advances by at most half a change window at a time, so that two
\* calls can be less than, exactly, or more than one window apart.
Tick == ChangeWait \div 2

\* File locations recorded and not yet published or dropped, at most.
MaxUris == 2

\* Directories above the file of a generated uri (ClassifySpec), at most.
MaxDepth == 3

\* Handles startWatchingFileSystem returns, at most.
MaxHandles == 2

\* Invocations of gated operations in flight (GateSpec), at most.
MaxInFlight == 2

\* the most categories in an event that is queried
MaxChanges == 2

\* subscribeToRemotes calls awaiting their remote list, at most
MaxSubscribing == 2

(***************************************************************************)
(* Helpers                                                                 *)
(***************************************************************************)

Range(s) == {s[i] : i \in 1..Len(s)}

Includes(s, x) == \E i \in 1..Len(s) : s[i] = x

Distinct(s) == \A i, j \in 1..Len(s) : s[i] = s[j] => i = j

Min(S) == CHOOSE x \in S : \A y \in S : x <= y

RECURSIVE SeqsUpTo(_, _)
SeqsUpTo(S, n) ==
    IF n = 0 THEN {<<>>}
    ELSE LET shorter == SeqsUpTo(S, n - 1)
         IN  shorter \cup {Append(s, x) : s \in {t \in shorter : Len(t) = n - 1}, x \in S}

(***************************************************************************)
(* enum RepositoryChange                                                   *)
(***************************************************************************)

RepositoryChange ==
    {"config", "closed", "starred", "heads", "index", "ignores", "remotes",
     "stash", "tags", "unknown"}

(***************************************************************************)
(* Uris.  A uri is the sequence of the segments of its path; <<>> is the   *)
(* absent (null) uri.  The two predicates below say what the source's      *)
(* string tests say of a segment.                                          *)
(***************************************************************************)

NullUri == <<>>

\* the segment's text ends with ".git"
EndsWithDotGit(seg) == seg \in {".git", "sub.git"}

\* the segment's text starts with the name of a refs directory
RefsDir(seg) ==
    CASE seg \in {"heads", "headstone"} -> "heads"
      [] seg \in {"remotes"} -> "remotes"
      [] seg \in {"tags"} -> "tags"
      [] OTHER -> "none"

\* uri.path.endsWith('.git/<name>')
EndsWithGitFile(path, name) ==
    /\ Len(path) >= 2
    /\ path[Len(path)] = name
    /\ EndsWithDotGit(path[Len(path) - 1])

\* the places where refsRegex = /\.git\/refs\/(heads|remotes|tags)/ matches
RefsMatches(path) ==
    {i \in 1..(Len(path) - 2) :
        /\ EndsWithDotGit(path[i])
        /\ path[i + 1] = "refs"
        /\ RefsDir(path[i + 2]) # "none"}

\* refsRegex.exec(uri.path): match[1] of the leftmost match, "none" without one
RefsRegexExec(path) ==
    IF RefsMatches(path) = {} THEN "none"
    ELSE RefsDir(path[Min(RefsMatches(path)) + 2])

\* an ignoreGitRegex that matches nothing
IgnoreGitRegexNever(path) == FALSE

\* ignoreGitRegex = /\.git(?:\/|\\|$)/ tested on uri.fsPath
IgnoreGitRegexTest(path) == \E i \in 1..Len(path) : EndsWithDotGit(path[i])

(***************************************************************************)
(* onRepositoryChanged: for a uri, the categories it hands to fireChange   *)
(* and the caches it clears before that call (resetBranch: "this._branch = *)
(* undefined"; resetRemotes: "this.resetRemotesCache()").                  *)
(***************************************************************************)

Handling(changes, resetBranch, resetRemotes) ==
    [changes |-> changes, resetBranch |-> resetBranch, resetRemotes |-> resetRemotes]

\* uri.path.endsWith('.git/refs/stash')
EndsWithRefsStash(path) ==
    /\ Len(path) >= 3
    /\ path[Len(path)] = "stash"
    /\ path[Len(path) - 1] = "refs"
    /\ EndsWithDotGit(path[Len(path) - 2])

\* onRepositoryChanged with the refs/remotes case clearing no cache
RepositoryChangedKeepingCaches(uri) ==
    IF uri = NullUri THEN Handling(<<"unknown">>, FALSE, FALSE)
    ELSE IF EndsWithGitFile(uri, "config") THEN Handling(<<"config", "remotes">>, TRUE, TRUE)
    ELSE IF EndsWithGitFile(uri, "index") THEN Handling(<<"index">>, FALSE, FALSE)
    ELSE IF EndsWithGitFile(uri, "HEAD") \/ EndsWithGitFile(uri, "ORIG_HEAD")
         THEN Handling(<<"heads">>, TRUE, FALSE)
    ELSE IF EndsWithRefsStash(uri) THEN Handling(<<"stash">>, FALSE, FALSE)
    ELSE IF uri[Len(uri)] = ".gitignore" THEN Handling(<<"ignores">>, FALSE, FALSE)
    ELSE CASE RefsRegexExec(uri) = "heads" -> Handling(<<"heads">>, TRUE, FALSE)
           [] RefsRegexExec(uri) = "remotes" -> Handling(<<"remotes">>, FALSE, FALSE)
           [] RefsRegexExec(uri) = "tags" -> Handling(<<"tags">>, FALSE, FALSE)
           [] OTHER -> Handling(<<"unknown">>, FALSE, FALSE)

\* onRepositoryChanged with the refs/remotes case falling into the tags case
RepositoryChangedRemotesAsTags(uri) ==
    IF uri = NullUri THEN Handling(<<"unknown">>, FALSE, FALSE)
    ELSE IF EndsWithGitFile(uri, "config") THEN Handling(<<"config", "remotes">>, TRUE, TRUE)
    ELSE IF EndsWithGitFile(uri, "index") THEN Handling(<<"index">>, FALSE, FALSE)
    ELSE IF EndsWithGitFile(uri, "HEAD") \/ EndsWithGitFile(uri, "ORIG_HEAD")
         THEN Handling(<<"heads">>, TRUE, FALSE)
    ELSE IF EndsWithRefsStash(uri) THEN Handling(<<"stash">>, FALSE, FALSE)
    ELSE IF uri[Len(uri)] = ".gitignore" THEN Handling(<<"ignores">>, FALSE, FALSE)
    ELSE CASE RefsRegexExec(uri) = "heads" -> Handling(<<"heads">>, TRUE, FALSE)
           [] RefsRegexExec(uri) \in {"remotes", "tags"} -> Handling(<<"tags">>, FALSE, FALSE)
           [] OTHER -> Handling(<<"unknown">>, FALSE, FALSE)

RepositoryChanged(uri) ==
    IF uri = NullUri THEN Handling(<<"unknown">>, FALSE, FALSE)
    ELSE IF EndsWithGitFile(uri, "config") THEN Handling(<<"config", "remotes">>, TRUE, TRUE)
    ELSE IF EndsWithGitFile(uri, "index") THEN Handling(<<"index">>, FALSE, FALSE)
    ELSE IF EndsWithGitFile(uri, "HEAD") \/ EndsWithGitFile(uri, "ORIG_HEAD")
         THEN Handling(<<"heads">>, TRUE, FALSE)
    ELSE IF EndsWithRefsStash(uri) THEN Handling(<<"stash">>, FALSE, FALSE)
    ELSE IF uri[Len(uri)] = ".gitignore" THEN Handling(<<"ignores">>, FALSE, FALSE)
    ELSE CASE RefsRegexExec(uri) = "heads" -> Handling(<<"heads">>, TRUE, FALSE)
           [] RefsRegexExec(uri) = "remotes" -> Handling(<<"remotes">>, TRUE, TRUE)
           [] RefsRegexExec(uri) = "tags" -> Handling(<<"tags">>, FALSE, FALSE)
           [] OTHER -> Handling(<<"unknown">>, FALSE, FALSE)

(***************************************************************************)
(* Events and the merge loop of fireChange                                 *)
(***************************************************************************)

\* this._pendingRepoChange == null
NoEvent == [defined |-> FALSE, changes |-> <<>>]

\* new RepositoryChangeEvent(this, changes)
RepositoryChangeEvent(changes) == [defined |-> TRUE, changes |-> changes]

\* this._pendingFileSystemChange == null
NoFileSystemEvent == [defined |-> FALSE, uris |-> <<>>]

RepositoryFileSystemChangeEvent(uris) == [defined |-> TRUE, uris |-> uris]

\* the merge loop replacing what was accumulated by the call's categories
MergeReplacing(list, changes) == changes

\* the merge loop without its includes() test
RECURSIVE PushAll(_, _)
PushAll(list, changes) ==
    IF changes = <<>> THEN list
    ELSE PushAll(Append(list, Head(changes)), Tail(changes))

\* for (const reason of changes) if (!e.changes.includes(reason)) e.changes.push(reason)
RECURSIVE Merge(_, _)
Merge(list, changes) ==
    IF changes = <<>> THEN list
    ELSE Merge(IF Includes(list, Head(changes)) THEN list ELSE Append(list, Head(changes)),
               Tail(changes))

(***************************************************************************)
(* Functions.debounce (system/function.ts, not among the source files):    *)
(* a trailing-edge debounce.  Calling the debounced function (re)starts    *)
(* its timer at the full wait; the callback runs when the timer runs out.  *)
(***************************************************************************)

\* a debounced function that does not exist yet (the field is undefined)
NoDebounced == [created |-> FALSE, armed |-> FALSE, remaining |-> 0, wait |-> 0]

Debounce(wait) == [created |-> TRUE, armed |-> FALSE, remaining |-> 0, wait |-> wait]

CallDebounced(d) == [d EXCEPT !.armed = TRUE, !.remaining = d.wait]

Elapse(d, t) == IF d.armed THEN [d EXCEPT !.remaining = @ - t] ELSE d

Due(d) == d.armed /\ d.remaining = 0

Expire(d) == [d EXCEPT !.armed = FALSE]

(***************************************************************************)
(* State                                                                   *)
(***************************************************************************)

VARIABLES
    suspended,                      \* _suspended
    pendingRepoChange,              \* _pendingRepoChange
    fireChangeDebounced,            \* _fireChangeDebounced
    pendingFileSystemChange,        \* _pendingFileSystemChange
    fireFileSystemChangeDebounced,  \* _fireFileSystemChangeDebounced
    excluding,                      \* batches awaiting excludeIgnoredUris, oldest first
    branch,                         \* _branch: "undefined" or "cached"
    remotes,                        \* _remotes: "undefined" or "cached"
    \* what the last step did
    op,                             \* the operation that ran
    uri,                            \* the uri it was given
    fired,                          \* the categories it passed to fireChange
    delivered,                      \* the event it fired on _onDidChange
    deliveredFs,                    \* the event it fired on _onDidChangeFileSystem
    cleared,                        \* the caches it emptied
    notified,                       \* the events it passed to onAnyRepositoryChanged
    \* history
    recorded,                       \* categories passed to fireChange since the last flush
    heldBack,                       \* of those, the ones passed while suspended
    called,                         \* fireChange has been called
    sinceCall,                      \* time since the last fireChange call (capped)
    pubsSinceCall,                  \* events fired on _onDidChange since that call
    gated,                          \* the repository was suspended at or after that call
    branchStale,                    \* _branch holds a value read before a change to it
    remotesStale,                   \* _remotes holds a value read before a change to it
    aliased,                        \* _pendingRepoChange is an event object already fired
    supportsChangeEvents,           \* supportsChangeEvents
    closed,                         \* _closed
    fsWatchCounter,                 \* _fsWatchCounter
    fsWatcherDisposable,            \* _fsWatcherDisposable != null: the working-tree watcher exists
    handles,                        \* the handles startWatchingFileSystem returned: "live" or "disposed"
    lastFetched,                    \* _lastFetched
    lastFetchedCall,                \* where the getLastFetched call in flight is: "idle" without one
    lastFetchedResult,              \* what the last getLastFetched call resolved to
    stat,                           \* what workspace.fs.stat gave that call
    inFlight,                       \* the invocations of gated operations not settled yet
    call,                           \* the last call of a gated operation, when it was the last step
    settled,                        \* the operation that settled or ran, when it was the last step
    asked,                          \* the last changed(...) query on an event, and its answers
    disposed,                       \* dispose() has been called
    remoteSubscriptions             \* _remotesDisposable and the subscribeToRemotes calls awaiting

engineVars == <<suspended, pendingRepoChange, fireChangeDebounced>>
fsVars == <<pendingFileSystemChange, fireFileSystemChangeDebounced, excluding>>
cacheVars == <<branch, remotes, branchStale, remotesStale>>
stepVars == <<op, uri, fired, delivered, deliveredFs, cleared, notified>>
historyVars == <<recorded, heldBack, called, sinceCall, pubsSinceCall, gated, aliased>>
watchVars == <<fsWatchCounter, fsWatcherDisposable, handles>>
fetchedVars == <<lastFetched, lastFetchedCall, lastFetchedResult, stat>>
opVars == <<inFlight, call, settled>>
lateVars == <<asked, disposed, remoteSubscriptions>>
serviceVars == <<supportsChangeEvents, closed, watchVars, fetchedVars, opVars, lateVars>>
vars == <<engineVars, fsVars, cacheVars, stepVars, historyVars, serviceVars>>

\* this._lastFetched == null; also: no call has resolved yet
NoTime == [defined |-> FALSE, time |-> 0]

Time(t) == [defined |-> TRUE, time |-> t]

\* the modification times FETCH_HEAD can have
Mtimes == {1000, 2000}

\* workspace.fs.stat has not been called
NoStat == [called |-> FALSE, ok |-> FALSE, size |-> 0, mtime |-> 0, cached |-> FALSE]

\* what workspace.fs.stat can give: a failure, or the file's size and mtime
\* (cached: a time was cached when the stat settled, filled in by StatDone)
StatOutcomes ==
    {[called |-> TRUE, ok |-> FALSE, size |-> 0, mtime |-> 0, cached |-> FALSE]}
        \cup {[called |-> TRUE, ok |-> TRUE, size |-> sz, mtime |-> t, cached |-> FALSE] :
                  sz \in {0, 100}, t \in Mtimes}

(***************************************************************************)
(* The mutating operations: their options, what the environment does to    *)
(* them, and what they come to                                             *)
(***************************************************************************)

\* fetch, pull, push, switch: asynchronous, a try/catch around the delegate
CoreOps == {"fetch", "pull", "push", "switch"}

\* stashApply, stashDelete, stashSave: asynchronous, no try/catch
StashOps == {"stashApply", "stashDelete", "stashSave"}

\* the operations that go through runTerminalCommand
TerminalOps ==
    {"branch", "branchDelete", "cherryPick", "merge", "rebase", "reset", "revert",
     "tag", "tagDelete"}

\* the options an operation reads, at the values a call without them gets
\* ("progress: true" from "{ progress: true, ...options }")
DefaultOptions ==
    [progress |-> TRUE, rebase |-> FALSE, force |-> FALSE, reference |-> "none",
     stashName |-> "none"]

\* the options a call of the operation can carry; a push's reference is a
\* branch to publish, a branch, another reference (a commit) or absent
OptionsOf(name) ==
    CASE name = "pull" ->
            {[DefaultOptions EXCEPT !.progress = p, !.rebase = r] : p, r \in BOOLEAN}
      [] name = "push" ->
            {[DefaultOptions EXCEPT !.progress = p, !.force = f, !.reference = ref] :
                p \in BOOLEAN, f \in BOOLEAN, ref \in {"none", "branch", "publish", "commit"}}
      [] name \in {"fetch", "switch"} ->
            {[DefaultOptions EXCEPT !.progress = p] : p \in BOOLEAN}
      [] OTHER ->
            {[DefaultOptions EXCEPT !.stashName = n] : n \in {"stash@{0}", "stash@{1}"}}

\* what the environment decides for one invocation: ok, whether the awaited
\* calls succeed; tracking, hasTrackingBranch(); fetchOnPull, the
\* git.fetchOnPull setting; repoFound, getBuiltInGitRepository() != null;
\* branchFound, getBranch(...) != null; isCurrent, branch.id === currentBranch?.id
Envs ==
    [ok : BOOLEAN, tracking : BOOLEAN, fetchOnPull : BOOLEAN, repoFound : BOOLEAN,
     branchFound : BOOLEAN, isCurrent : BOOLEAN]

\* the same, what the operation does not read left at TRUE
EnvsOf(name) ==
    {env \in Envs :
        /\ name # "pull" => (env.tracking /\ env.fetchOnPull)
        /\ name # "push" => (env.repoFound /\ env.branchFound /\ env.isCurrent)}

\* what an invocation comes to.  how: "done", its delegate completed;
\* "returned", it returned before any delegate; "caught", its catch logged
\* the failure and showed the generic message; "thrown", the failure went to
\* the caller.  changes: the categories passed to fireChange.
Done(command, changes) == [command |-> command, how |-> "done", changes |-> changes]

Returned == [command |-> "none", how |-> "returned", changes |-> <<>>]

Caught(command) == [command |-> command, how |-> "caught", changes |-> <<>>]

Thrown(command) == [command |-> command, how |-> "thrown", changes |-> <<>>]

\* fetchCore
FetchCore(env) ==
    IF env.ok THEN Done("Container.git.fetch", <<"unknown">>)
    ELSE Caught("Container.git.fetch")

\* pullCore: the delegate it awaits
PullCommand(rebase, env) ==
    IF env.tracking THEN (IF rebase THEN "git.pullRebase" ELSE "git.pull")
    ELSE IF env.fetchOnPull THEN "Container.git.fetch"
    ELSE "none"

\* pullCore(options), rebase being options.rebase
PullCore(rebase, env) ==
    IF env.ok THEN Done(PullCommand(rebase, env), <<"unknown">>)
    ELSE Caught(PullCommand(rebase, env))

\* pull(options): "if (!progress) return this.pullCore();", else pullCore(opts)
Pull(options, env) ==
    IF ~options.progress THEN PullCore(DefaultOptions.rebase, env)
    ELSE PullCore(options.rebase, env)

\* pushCore: the delegate it awaits, "none" when it returns before any
PushCommand(options, env) ==
    CASE options.reference = "publish" ->
            IF env.repoFound THEN "repo.push" ELSE "none"
      [] options.reference = "branch" ->
            IF ~env.repoFound \/ ~env.branchFound THEN "none"
            ELSE IF env.isCurrent THEN (IF options.force THEN "git.pushForce" ELSE "git.push")
            ELSE "repo.push"
      [] options.reference = "commit" ->
            IF ~env.repoFound \/ ~env.branchFound THEN "none" ELSE "repo.push"
      [] OTHER -> IF options.force THEN "git.pushForce" ELSE "git.push"

\* push(options), which hands its options to pushCore with or without progress
PushCore(options, env) ==
    IF ~env.ok THEN Caught(PushCommand(options, env))
    ELSE IF PushCommand(options, env) = "none" THEN Returned
    ELSE Done(PushCommand(options, env), <<"unknown">>)

\* switchCore
SwitchCore(env) ==
    IF env.ok THEN Done("Container.git.checkout", <<"unknown">>)
    ELSE Caught("Container.git.checkout")

\* stashApply, stashDelete, stashSave
Stash(name, env, supports) ==
    IF env.ok THEN Done(name, IF supports THEN <<>> ELSE <<"stash">>)
    ELSE Thrown(name)

\* runTerminalCommand recording nothing
RunTerminalCommandSilent(supports) == Done("runGitCommandInTerminal", <<>>)

\* runTerminalCommand
RunTerminalCommand(supports) ==
    Done("runGitCommandInTerminal", IF supports THEN <<>> ELSE <<"unknown">>)

\* an asynchronous operation, from its call to its settling
Operation(name, options, env, supports) ==
    CASE name = "fetch" -> FetchCore(env)
      [] name = "pull" -> Pull(options, env)
      [] name = "push" -> PushCore(options, env)
      [] name = "switch" -> SwitchCore(env)
      [] OTHER -> Stash(name, env, supports)

\* the invocation calls getBranch() without a name: pullCore through
\* hasTrackingBranch(), pushCore for a branch or another reference
ReadsBranch(name, options, env) ==
    \/ name = "pull"
    \/ name = "push" /\ options.reference = "branch" /\ env.repoFound /\ env.branchFound
    \/ name = "push" /\ options.reference = "commit" /\ env.repoFound

\* no gated operation was called in the last step
NoCall == [name |-> "none", options |-> DefaultOptions, joined |-> FALSE]

\* no operation settled or ran in the last step
NoSettled ==
    [name |-> "none", options |-> DefaultOptions,
     env |-> [ok |-> TRUE, tracking |-> FALSE, fetchOnPull |-> FALSE, repoFound |-> FALSE,
              branchFound |-> FALSE, isCurrent |-> FALSE],
     command |-> "none", how |-> "none", changes |-> <<>>]

(***************************************************************************)
(* RepositoryChangeEvent.changed                                           *)
(***************************************************************************)

\* changed(change, only) of an event with these categories, of a repository
\* whose supportsChangeEvents is supports
Changed(changes, supports, change, only) ==
    IF only
    THEN IF Len(changes) # 1 THEN FALSE
         ELSE IF changes[1] = change THEN TRUE
         ELSE IF ~supports /\ changes[1] = "unknown"
              THEN change \notin {"closed", "starred"}
         ELSE FALSE
    ELSE IF Includes(changes, change) THEN TRUE
         ELSE IF ~supports /\ Includes(changes, "unknown")
              THEN change \notin {"closed", "ignores", "starred"}
         ELSE FALSE

\* no changed(...) query was made
NoAsked ==
    [defined |-> FALSE, changes |-> <<>>, change |-> "none", only |-> FALSE, any |-> FALSE]

\* the category lists of the events queried: the lists fireChange builds,
\* which hold no category twice
EventChanges == {changes \in SeqsUpTo(RepositoryChange, MaxChanges) : Distinct(changes)}

(***************************************************************************)
(* The remote providers' subscriptions.  A set of subscriptions is         *)
(* "current" when it was made for the remote list _remotes holds and       *)
(* "discarded" when that list has been dropped from the cache since.       *)
(*   disposable   what _remotesDisposable holds: "none" when undefined or  *)
(*                disposed, else the set it holds                          *)
(*   current      a subscribeToRemotes call awaits the list in _remotes    *)
(*   discarded    the subscribeToRemotes calls awaiting a list dropped     *)
(***************************************************************************)

NoSubscriptions ==
    [disposable |-> "none", current |-> FALSE, discarded |-> 0]

\* the subscribeToRemotes calls awaiting
Subscribing(subs) == subs.discarded + (IF subs.current THEN 1 ELSE 0)

\* resetRemotesCache(), _remotes being set to undefined with it
ResetRemotesCache(subs) ==
    [subs EXCEPT !.disposable = "none", !.current = FALSE, !.discarded = Subscribing(subs)]

\* subscribeToRemotes(this._remotes) up to its await, _remotes having just
\* been given a new list
SubscribeToRemotes(subs) ==
    [subs EXCEPT !.disposable = "none", !.current = TRUE, !.discarded = Subscribing(subs)]

\* subscribeToRemotes after its await: the subscriptions made for the list
\* awaited are assigned to _remotesDisposable
SubscribeToRemotesDone(subs, which) ==
    IF which = "current"
    THEN [subs EXCEPT !.disposable = which, !.current = FALSE]
    ELSE [subs EXCEPT !.disposable = which, !.discarded = @ - 1]

\* getRemotes(): whether it reads the remotes anew, and the subscriptions after
GetRemotesReads(cached, supports) == cached = "undefined" \/ ~supports

RemotesRead(cached, supports, subs) ==
    IF GetRemotesReads(cached, supports) THEN SubscribeToRemotes(subs) ELSE subs

\* the longest time the history tells apart
SinceCap == ChangeWait + Tick

Init ==
    /\ suspended \in BOOLEAN        \* the constructor's "suspended" argument
    /\ pendingRepoChange = NoEvent
    /\ fireChangeDebounced = NoDebounced
    /\ pendingFileSystemChange = NoFileSystemEvent
    /\ fireFileSystemChangeDebounced = NoDebounced
    /\ excluding = <<>>
    /\ branch = "undefined"
    /\ remotes = "undefined"
    /\ op = "constructor"
    /\ uri = NullUri
    /\ fired = <<>>
    /\ delivered = NoEvent
    /\ deliveredFs = NoFileSystemEvent
    /\ cleared = {}
    /\ recorded = {}
    /\ heldBack = {}
    /\ called = FALSE
    /\ sinceCall = SinceCap
    /\ pubsSinceCall = 0
    /\ gated = suspended
    /\ branchStale = FALSE
    /\ remotesStale = FALSE
    /\ notified = <<>>
    /\ aliased = FALSE
    /\ supportsChangeEvents \in BOOLEAN  \* FALSE for a root repository outside the workspace folders
    /\ closed = FALSE              \* the constructor's "closed" argument, at its default
    /\ fsWatchCounter = 0
    /\ fsWatcherDisposable = FALSE
    /\ handles = <<>>
    /\ lastFetched = NoTime
    /\ lastFetchedCall = "idle"
    /\ lastFetchedResult = NoTime
    /\ stat = NoStat
    /\ inFlight = <<>>
    /\ call = NoCall
    /\ settled = NoSettled
    /\ asked = NoAsked
    /\ disposed = FALSE
    /\ remoteSubscriptions = NoSubscriptions

\* what a step that fires no event and calls no fireChange leaves in stepVars
Ran(name, u) ==
    /\ op' = name
    /\ uri' = u
    /\ fired' = <<>>
    /\ delivered' = NoEvent
    /\ deliveredFs' = NoFileSystemEvent
    /\ cleared' = {}
    /\ notified' = <<>>

(***************************************************************************)
(* fireChange and fireChangeCore                                           *)
(***************************************************************************)

\* the debounced function after "if (this._fireChangeDebounced == null) ..."
Created(d, wait) == IF d.created THEN d ELSE Debounce(wait)

\* the callback handed the accumulator instead of the call's own event
AnyRepositoryChangedAccumulated(pending, changes) ==
    RepositoryChangeEvent(Merge(pending.changes, changes))

\* this.onAnyRepositoryChanged(this, new RepositoryChangeEvent(this, changes)):
\* the event the callback is handed
AnyRepositoryChanged(pending, changes) == RepositoryChangeEvent(changes)

\* fireChange calling the debounced function only when it creates the accumulator
FireChangeArmsOnce(changes) ==
    /\ pendingRepoChange' =
           RepositoryChangeEvent(Merge(pendingRepoChange.changes, changes))
    /\ fireChangeDebounced' =
           IF suspended \/ pendingRepoChange.defined
           THEN Created(fireChangeDebounced, ChangeWait)
           ELSE CallDebounced(Created(fireChangeDebounced, ChangeWait))
    /\ UNCHANGED suspended
    /\ recorded' = recorded \cup Range(changes)
    /\ heldBack' = IF suspended THEN heldBack \cup Range(changes) ELSE heldBack
    /\ called' = TRUE
    /\ sinceCall' = 0
    /\ pubsSinceCall' = 0
    /\ gated' = suspended
    /\ aliased' = (aliased /\ pendingRepoChange.defined)
    /\ notified' = <<AnyRepositoryChanged(pendingRepoChange, changes)>>

\* fireChange calling the debounced function when suspended too
FireChangeArmsSuspended(changes) ==
    /\ pendingRepoChange' =
           RepositoryChangeEvent(Merge(pendingRepoChange.changes, changes))
    /\ fireChangeDebounced' = CallDebounced(Created(fireChangeDebounced, ChangeWait))
    /\ UNCHANGED suspended
    /\ recorded' = recorded \cup Range(changes)
    /\ heldBack' = IF suspended THEN heldBack \cup Range(changes) ELSE heldBack
    /\ called' = TRUE
    /\ sinceCall' = 0
    /\ pubsSinceCall' = 0
    /\ gated' = suspended
    /\ aliased' = (aliased /\ pendingRepoChange.defined)
    /\ notified' = <<AnyRepositoryChanged(pendingRepoChange, changes)>>

\* fireChange(...changes): everything but the other stepVars and the caches
FireChange(changes) ==
    /\ pendingRepoChange' =
           RepositoryChangeEvent(Merge(pendingRepoChange.changes, changes))
    /\ fireChangeDebounced' =
           IF suspended THEN Created(fireChangeDebounced, ChangeWait)
           ELSE CallDebounced(Created(fireChangeDebounced, ChangeWait))
    /\ UNCHANGED suspended
    /\ recorded' = recorded \cup Range(changes)
    /\ heldBack' = IF suspended THEN heldBack \cup Range(changes) ELSE heldBack
    /\ called' = TRUE
    /\ sinceCall' = 0
    /\ pubsSinceCall' = 0
    /\ gated' = suspended
    /\ aliased' = (aliased /\ pendingRepoChange.defined)
    /\ notified' = <<AnyRepositoryChanged(pendingRepoChange, changes)>>

\* fireChangeCore publishing an empty event when nothing is pending
FireChangeCoreAlways(pending) ==
    [pending |-> NoEvent, event |-> RepositoryChangeEvent(pending.changes)]

\* fireChangeCore firing the accumulator and leaving it in place
FireChangeCoreKeeping(pending) ==
    IF ~pending.defined THEN [pending |-> pending, event |-> NoEvent]
    ELSE [pending |-> pending, event |-> pending]

\* fireChangeCore: the accumulator it leaves and the event it fires (NoEvent: none)
FireChangeCore(pending) ==
    IF ~pending.defined THEN [pending |-> pending, event |-> NoEvent]
    ELSE [pending |-> NoEvent, event |-> pending]

\* what a run of fireChangeCore does to the state, the debounced function aside
RunFireChangeCore ==
    LET r == FireChangeCore(pendingRepoChange)
    IN  /\ pendingRepoChange' = r.pending
        /\ delivered' = r.event
        /\ recorded' = IF r.event.defined THEN {} ELSE recorded
        /\ heldBack' = IF r.event.defined THEN {} ELSE heldBack
        /\ pubsSinceCall' = IF r.event.defined THEN pubsSinceCall + 1 ELSE pubsSinceCall
        /\ aliased' = (r.pending.defined /\ (r.event.defined \/ aliased))
        /\ uri' = NullUri
        /\ fired' = <<>>
        /\ deliveredFs' = NoFileSystemEvent
        /\ cleared' = {}
        /\ notified' = <<>>
        /\ UNCHANGED <<suspended, called, sinceCall, gated>>

(***************************************************************************)
(* The watcher's notifications                                             *)
(***************************************************************************)

\* the caches a change of these categories outdates
Outdates(changes, cache) ==
    IF cache = "branch" THEN Range(changes) \cap {"heads", "remotes"} # {}
    ELSE Range(changes) \cap {"config", "remotes"} # {}

\* onRepositoryChanged(u)
OnRepositoryChanged(u) ==
    LET h == RepositoryChanged(u)
    IN  /\ branch' = IF h.resetBranch THEN "undefined" ELSE branch
        /\ remotes' = IF h.resetRemotes THEN "undefined" ELSE remotes
        /\ branchStale' = /\ branch' = "cached"
                          /\ (branchStale \/ Outdates(h.changes, "branch"))
        /\ remotesStale' = /\ remotes' = "cached"
                           /\ (remotesStale \/ Outdates(h.changes, "remotes"))
        /\ FireChange(h.changes)
        /\ op' = "onRepositoryChanged"
        /\ uri' = u
        /\ fired' = h.changes
        /\ delivered' = NoEvent
        /\ deliveredFs' = NoFileSystemEvent
        /\ cleared' = {c \in {"branch"} : branch = "cached" /\ branch' = "undefined"}
                         \cup {c \in {"remotes"} : remotes = "cached" /\ remotes' = "undefined"}
        /\ lastFetched' = NoTime
        /\ remoteSubscriptions' = IF h.resetRemotes THEN ResetRemotesCache(remoteSubscriptions)
                                  ELSE remoteSubscriptions
        /\ UNCHANGED <<fsVars, supportsChangeEvents, asked, disposed, opVars, closed, watchVars>>
        /\ UNCHANGED <<lastFetchedCall, lastFetchedResult, stat>>

(***************************************************************************)
(* suspend and resume                                                      *)
(***************************************************************************)

Suspend ==
    /\ suspended' = TRUE
    /\ gated' = TRUE
    /\ Ran("suspend", NullUri)
    /\ UNCHANGED <<pendingRepoChange, fireChangeDebounced, fsVars, cacheVars>>
    /\ UNCHANGED <<recorded, heldBack, called, sinceCall, pubsSinceCall, aliased>>
    /\ UNCHANGED serviceVars

\* resume() without the calls of the debounced functions
ResumeOnly ==
    /\ suspended' = FALSE
    /\ Ran("resume", NullUri)
    /\ UNCHANGED <<pendingRepoChange, fireChangeDebounced, fsVars, cacheVars, historyVars>>
    /\ UNCHANGED serviceVars

Resume ==
    /\ suspended' = FALSE
    /\ fireChangeDebounced' =
           IF suspended /\ pendingRepoChange.defined
           THEN CallDebounced(fireChangeDebounced) ELSE fireChangeDebounced
    /\ fireFileSystemChangeDebounced' =
           IF suspended /\ pendingFileSystemChange.defined
           THEN CallDebounced(fireFileSystemChangeDebounced)
           ELSE fireFileSystemChangeDebounced
    /\ Ran("resume", NullUri)
    /\ UNCHANGED <<pendingRepoChange, pendingFileSystemChange, excluding, cacheVars>>
    /\ UNCHANGED <<historyVars, serviceVars>>

(***************************************************************************)
(* Time and the debounce timers                                            *)
(***************************************************************************)

Armed == {d \in {fireChangeDebounced, fireFileSystemChangeDebounced} : d.armed}

\* time passes: by a tick, or by less when a timer runs out sooner
Advance ==
    /\ \A d \in Armed : ~Due(d)
    /\ LET t == Min({Tick} \cup {d.remaining : d \in Armed})
       IN  /\ fireChangeDebounced' = Elapse(fireChangeDebounced, t)
           /\ fireFileSystemChangeDebounced' = Elapse(fireFileSystemChangeDebounced, t)
           /\ sinceCall' = Min({sinceCall + t, SinceCap})
    /\ Ran("advance", NullUri)
    /\ UNCHANGED <<suspended, pendingRepoChange, pendingFileSystemChange, excluding>>
    /\ UNCHANGED <<cacheVars, recorded, heldBack, called, pubsSinceCall, gated, aliased>>
    /\ UNCHANGED serviceVars

\* the timer of _fireChangeDebounced runs out: fireChangeCore runs
ChangeTimerElapsed ==
    /\ Due(fireChangeDebounced)
    /\ fireChangeDebounced' = Expire(fireChangeDebounced)
    /\ RunFireChangeCore
    /\ op' = "fireChangeCore"
    /\ UNCHANGED <<fsVars, cacheVars, serviceVars>>

(***************************************************************************)
(* The closed property, and a subscriber of onDidChange that sets it       *)
(***************************************************************************)

\* set closed(value)
SetClosed(value) ==
    /\ closed' = value
    /\ IF closed # value
       THEN /\ FireChange(<<"closed">>)
            /\ op' = "closed"
            /\ uri' = NullUri
            /\ fired' = <<"closed">>
            /\ delivered' = NoEvent
            /\ deliveredFs' = NoFileSystemEvent
            /\ cleared' = {}
       ELSE /\ Ran("closed", NullUri)
            /\ UNCHANGED <<engineVars, historyVars>>
    /\ UNCHANGED <<fsVars, cacheVars, supportsChangeEvents, lateVars, opVars, watchVars, fetchedVars>>

\* the timer of _fireChangeDebounced runs out and, while fireChangeCore is in
\* this._onDidChange.fire(e), a subscriber sets closed to a new value: the
\* setter's fireChange(Closed) runs on the state fireChangeCore has left
DeliverToSubscriber(value) ==
    /\ Due(fireChangeDebounced)
    /\ pendingRepoChange.defined
    /\ closed # value
    /\ LET r == FireChangeCore(pendingRepoChange)
           d == Expire(fireChangeDebounced)
       IN  /\ delivered' = r.event
           /\ pendingRepoChange' =
                  RepositoryChangeEvent(Merge(r.pending.changes, <<"closed">>))
           /\ fireChangeDebounced' = IF suspended THEN d ELSE CallDebounced(d)
           /\ aliased' = r.pending.defined
           /\ notified' = <<AnyRepositoryChanged(r.pending, <<"closed">>)>>
    /\ closed' = value
    /\ recorded' = {"closed"}
    /\ heldBack' = IF suspended THEN {"closed"} ELSE {}
    /\ called' = TRUE
    /\ sinceCall' = 0
    /\ pubsSinceCall' = 0
    /\ gated' = suspended
    /\ op' = "fireChangeCore"
    /\ uri' = NullUri
    /\ fired' = <<"closed">>
    /\ deliveredFs' = NoFileSystemEvent
    /\ cleared' = {}
    /\ UNCHANGED <<suspended, fsVars, cacheVars, supportsChangeEvents, lateVars, opVars, watchVars, fetchedVars>>

(***************************************************************************)
(* The caches' readers                                                     *)
(***************************************************************************)

\* getBranch() without a name: reads the branch when none is cached
GetBranch ==
    /\ branch' = "cached"
    /\ branchStale' = (branch = "cached" /\ branchStale)
    /\ Ran("getBranch", NullUri)
    /\ UNCHANGED <<engineVars, fsVars, remotes, remotesStale, historyVars, serviceVars>>

\* getRemotes(): reads the remotes when none are cached or the repository
\* does not support change events, and subscribes to their providers
GetRemotes ==
    /\ GetRemotesReads(remotes, supportsChangeEvents) =>
           Subscribing(remoteSubscriptions) < MaxSubscribing
    /\ remotes' = "cached"
    /\ remotesStale' = (~GetRemotesReads(remotes, supportsChangeEvents) /\ remotesStale)
    /\ remoteSubscriptions' = RemotesRead(remotes, supportsChangeEvents, remoteSubscriptions)
    /\ Ran("getRemotes", NullUri)
    /\ UNCHANGED <<engineVars, fsVars, branch, branchStale, historyVars>>
    /\ UNCHANGED <<supportsChangeEvents, closed, watchVars, fetchedVars, opVars, asked, disposed>>

\* the remote list a subscribeToRemotes call awaits resolves
RemotesResolved(which) ==
    /\ IF which = "current" THEN remoteSubscriptions.current
       ELSE remoteSubscriptions.discarded > 0
    /\ remoteSubscriptions' = SubscribeToRemotesDone(remoteSubscriptions, which)
    /\ Ran("subscribeToRemotes", NullUri)
    /\ UNCHANGED <<engineVars, fsVars, cacheVars, historyVars>>
    /\ UNCHANGED <<supportsChangeEvents, closed, watchVars, fetchedVars, opVars, asked, disposed>>

(***************************************************************************)
(* getLastFetched.  The call runs in up to three steps: up to its await of *)
(* hasRemotes() (only when nothing is cached), up to its await of          *)
(* workspace.fs.stat, and to its return.                                   *)
(***************************************************************************)

\* this._lastFetched ?? 0
OrZero(t) == IF t.defined THEN t.time ELSE 0

\* getLastFetched(), up to its first await; hasRemotes() calls getRemotes()
GetLastFetched ==
    /\ lastFetchedCall = "idle"
    /\ (~lastFetched.defined /\ GetRemotesReads(remotes, supportsChangeEvents)) =>
           Subscribing(remoteSubscriptions) < MaxSubscribing
    /\ lastFetchedCall' = IF lastFetched.defined THEN "stat" ELSE "hasRemotes"
    /\ remotes' = IF lastFetched.defined THEN remotes ELSE "cached"
    /\ remotesStale' = IF lastFetched.defined THEN remotesStale
                       ELSE (~GetRemotesReads(remotes, supportsChangeEvents) /\ remotesStale)
    /\ remoteSubscriptions' =
           IF lastFetched.defined THEN remoteSubscriptions
           ELSE RemotesRead(remotes, supportsChangeEvents, remoteSubscriptions)
    /\ stat' = NoStat
    /\ lastFetchedResult' = NoTime
    /\ Ran("getLastFetched", NullUri)
    /\ UNCHANGED <<engineVars, fsVars, branch, branchStale, historyVars>>
    /\ UNCHANGED <<supportsChangeEvents, asked, disposed, opVars, closed, watchVars, lastFetched>>

\* hasRemotes() resolves; isMaybeGuest is Container.vsls.isMaybeGuest
HasRemotesDone(hasRemotes, isMaybeGuest) ==
    /\ lastFetchedCall = "hasRemotes"
    /\ IF ~hasRemotes \/ isMaybeGuest
       THEN /\ lastFetchedCall' = "idle"
            /\ lastFetchedResult' = Time(0)
       ELSE /\ lastFetchedCall' = "stat"
            /\ UNCHANGED lastFetchedResult
    /\ Ran("hasRemotes", NullUri)
    /\ UNCHANGED <<engineVars, fsVars, cacheVars, historyVars>>
    /\ UNCHANGED <<supportsChangeEvents, lateVars, opVars, closed, watchVars, lastFetched, stat>>

\* getLastFetched keeping the cached time when the stat fails
LastFetchedAfterKeeping(cached, outcome) ==
    IF outcome.ok /\ outcome.size > 0 THEN Time(outcome.mtime) ELSE cached

\* _lastFetched after the try/catch around workspace.fs.stat
LastFetchedAfter(cached, outcome) ==
    IF ~outcome.ok THEN NoTime
    ELSE IF outcome.size > 0 THEN Time(outcome.mtime)
    ELSE cached

\* workspace.fs.stat settles and getLastFetched returns
StatDone(outcome) ==
    /\ lastFetchedCall = "stat"
    /\ lastFetchedCall' = "idle"
    /\ stat' = [outcome EXCEPT !.cached = lastFetched.defined]
    /\ lastFetched' = LastFetchedAfter(lastFetched, outcome)
    /\ lastFetchedResult' = Time(OrZero(lastFetched'))
    /\ Ran("stat", NullUri)
    /\ UNCHANGED <<engineVars, fsVars, cacheVars, historyVars>>
    /\ UNCHANGED <<supportsChangeEvents, lateVars, opVars, closed, watchVars>>

(***************************************************************************)
(* The working-tree watcher: onFileSystemChanged, fireFileSystemChange,    *)
(* fireFileSystemChangeCore                                                *)
(***************************************************************************)

\* the locations the working-tree watcher reports
FileSystemUris ==
    { <<"repo", "src", "a.ts">>,
      <<"repo", "src", "b.ts">>,
      <<"repo", "out", "a.js">>,
      <<"repo", ".git", "index.lock">> }

\* Container.git.excludeIgnoredUris (gitService.ts, not among the source files):
\* the uris that no ignore rule matches, in their order; here out/ is ignored
IsIgnored(u) == Len(u) >= 2 /\ u[2] = "out"

ExcludeIgnoredUris(uris) == SelectSeq(uris, LAMBDA u : ~IsIgnored(u))

RECURSIVE TotalLen(_)
TotalLen(batches) ==
    IF batches = <<>> THEN 0 ELSE Len(Head(batches)) + TotalLen(Tail(batches))

\* locations recorded and neither published nor dropped yet
Alive == Len(pendingFileSystemChange.uris) + TotalLen(excluding)

\* onFileSystemChanged(u)
OnFileSystemChanged(u) ==
    /\ Alive < MaxUris
    /\ IF IgnoreGitRegexTest(u)
       THEN UNCHANGED <<pendingFileSystemChange, fireFileSystemChangeDebounced>>
       ELSE /\ pendingFileSystemChange' =
                   RepositoryFileSystemChangeEvent(Append(pendingFileSystemChange.uris, u))
            /\ fireFileSystemChangeDebounced' =
                   IF suspended THEN Created(fireFileSystemChangeDebounced, FileSystemWait)
                   ELSE CallDebounced(Created(fireFileSystemChangeDebounced, FileSystemWait))
    /\ Ran("onFileSystemChanged", u)
    /\ UNCHANGED <<engineVars, excluding, cacheVars, historyVars, serviceVars>>

\* fireFileSystemChangeCore up to its await: the accumulator it leaves and the
\* batches then awaiting excludeIgnoredUris
FireFileSystemChangeCore(pending, batches) ==
    IF ~pending.defined THEN [pending |-> pending, excluding |-> batches]
    ELSE [pending |-> NoFileSystemEvent, excluding |-> Append(batches, pending.uris)]

RunFireFileSystemChangeCore ==
    LET r == FireFileSystemChangeCore(pendingFileSystemChange, excluding)
    IN  /\ pendingFileSystemChange' = r.pending
        /\ excluding' = r.excluding

\* the timer of _fireFileSystemChangeDebounced runs out
FileSystemTimerElapsed ==
    /\ Due(fireFileSystemChangeDebounced)
    /\ fireFileSystemChangeDebounced' = Expire(fireFileSystemChangeDebounced)
    /\ RunFireFileSystemChangeCore
    /\ Ran("fireFileSystemChangeCore", NullUri)
    /\ UNCHANGED <<engineVars, cacheVars, historyVars, serviceVars>>

RemoveAt(s, i) == SubSeq(s, 1, i - 1) \o SubSeq(s, i + 1, Len(s))

\* fireFileSystemChangeCore after its await, for the i-th batch in flight
ExcludeIgnoredUrisDone(i) ==
    /\ i \in 1..Len(excluding)
    /\ excluding' = RemoveAt(excluding, i)
    /\ LET uris == ExcludeIgnoredUris(excluding[i])
       IN  deliveredFs' = IF Len(uris) = 0 THEN NoFileSystemEvent
                          ELSE RepositoryFileSystemChangeEvent(uris)
    /\ op' = "excludeIgnoredUris"
    /\ uri' = NullUri
    /\ fired' = <<>>
    /\ delivered' = NoEvent
    /\ cleared' = {}
    /\ notified' = <<>>
    /\ UNCHANGED <<engineVars, pendingFileSystemChange, fireFileSystemChangeDebounced>>
    /\ UNCHANGED <<cacheVars, historyVars, serviceVars>>

(***************************************************************************)
(* startWatchingFileSystem, stopWatchingFileSystem and the handles         *)
(***************************************************************************)

\* startWatchingFileSystem(): a new handle is returned
StartWatchingFileSystem ==
    /\ Len(handles) < MaxHandles
    /\ fsWatchCounter' = fsWatchCounter + 1
    /\ fsWatcherDisposable' = TRUE
    /\ handles' = Append(handles, "live")
    /\ Ran("startWatchingFileSystem", NullUri)
    /\ UNCHANGED <<engineVars, fsVars, cacheVars, historyVars, supportsChangeEvents, lateVars, opVars, closed>>
    /\ UNCHANGED fetchedVars

\* stopWatchingFileSystem(): the counter and the watcher it leaves
StopWatchingFileSystem(counter, watcher) ==
    IF ~watcher THEN [counter |-> counter, watcher |-> watcher]
    ELSE IF counter - 1 > 0 THEN [counter |-> counter - 1, watcher |-> watcher]
    ELSE [counter |-> counter - 1, watcher |-> FALSE]

\* dispose() of the h-th handle returned, disposed before or not
DisposeHandle(h) ==
    /\ h \in 1..Len(handles)
    /\ handles' = [handles EXCEPT ![h] = "disposed"]
    /\ LET r == StopWatchingFileSystem(fsWatchCounter, fsWatcherDisposable)
       IN  /\ fsWatchCounter' = r.counter
           /\ fsWatcherDisposable' = r.watcher
    /\ Ran("handle.dispose", NullUri)
    /\ UNCHANGED <<engineVars, fsVars, cacheVars, historyVars, supportsChangeEvents, lateVars, opVars, closed>>
    /\ UNCHANGED fetchedVars

\* the working-tree watcher, while it exists, reports a change of u
WatcherReports(u) ==
    /\ fsWatcherDisposable
    /\ OnFileSystemChanged(u)

(***************************************************************************)
(* dispose                                                                 *)
(***************************************************************************)

\* dispose(): stopWatchingFileSystem() once, _remotesDisposable?.dispose(),
\* then _disposable.dispose(), which releases the repository watcher and the
\* configuration listener; the debounced functions and the accumulators are
\* left as they are
Dispose ==
    /\ ~disposed
    /\ disposed' = TRUE
    /\ LET r == StopWatchingFileSystem(fsWatchCounter, fsWatcherDisposable)
       IN  /\ fsWatchCounter' = r.counter
           /\ fsWatcherDisposable' = r.watcher
    /\ remoteSubscriptions' = [remoteSubscriptions EXCEPT !.disposable = "none"]
    /\ Ran("dispose", NullUri)
    /\ UNCHANGED <<engineVars, fsVars, cacheVars, historyVars>>
    /\ UNCHANGED <<supportsChangeEvents, closed, handles, fetchedVars, opVars, asked>>

\* the repository watcher, until _disposable is disposed, reports a change of u
RepositoryWatcherReports(u) ==
    /\ ~disposed
    /\ OnRepositoryChanged(u)

(***************************************************************************)
(* The gate decorator (system/decorators/gate.ts, not among the source     *)
(* files): while a call of a decorated method is in flight, a call whose   *)
(* arguments resolve to the same key gets the promise in flight instead of *)
(* running the method.  @gate() resolves the key from the arguments,       *)
(* @gate(() => '') resolves every call to one key.                         *)
(***************************************************************************)

\* no asynchronous operation carries the decorator
GatedNever(name) == FALSE

\* the asynchronous operation carries @gate(...)
Gated(name) == name \in CoreOps \cup StashOps

\* the key of a call: its arguments, or one key for all calls
GateKey(name, options) == IF name \in StashOps THEN DefaultOptions ELSE options

\* the invocations in flight a call of the operation with these options joins
Flying(name, options) ==
    {i \in 1..Len(inFlight) :
        /\ inFlight[i].name = name
        /\ GateKey(name, inFlight[i].options) = GateKey(name, options)}

(***************************************************************************)
(* The mutating operations as steps                                        *)
(***************************************************************************)

\* a call of fireChange(...changes) when there are changes, nothing otherwise
Record(changes) ==
    IF changes # <<>> THEN FireChange(changes)
    ELSE /\ notified' = <<>>
         /\ UNCHANGED <<engineVars, historyVars>>

\* a call of an asynchronous operation, through the gate and up to its await
Call(name, options) ==
    /\ IF Gated(name) /\ Flying(name, options) # {}
       THEN /\ inFlight' = inFlight
            /\ call' = [name |-> name, options |-> options, joined |-> TRUE]
       ELSE /\ Len(inFlight) < MaxInFlight
            /\ inFlight' = Append(inFlight, [name |-> name, options |-> options])
            /\ call' = [name |-> name, options |-> options, joined |-> FALSE]
    /\ settled' = NoSettled
    /\ Ran("call", NullUri)
    /\ UNCHANGED <<engineVars, fsVars, cacheVars, historyVars>>
    /\ UNCHANGED <<supportsChangeEvents, lateVars, closed, watchVars, fetchedVars>>

\* the i-th invocation in flight settles, the environment being env
Settle(i, env) ==
    /\ i \in 1..Len(inFlight)
    /\ LET inv == inFlight[i]
           r == Operation(inv.name, inv.options, env, supportsChangeEvents)
           reads == ReadsBranch(inv.name, inv.options, env)
       IN  /\ settled' = [name |-> inv.name, options |-> inv.options, env |-> env,
                          command |-> r.command, how |-> r.how, changes |-> r.changes]
           /\ branch' = IF reads THEN "cached" ELSE branch
           /\ branchStale' = IF reads THEN (branch = "cached" /\ branchStale) ELSE branchStale
           /\ Record(r.changes)
           /\ fired' = r.changes
    /\ inFlight' = RemoveAt(inFlight, i)
    /\ call' = NoCall
    /\ op' = "settle"
    /\ uri' = NullUri
    /\ delivered' = NoEvent
    /\ deliveredFs' = NoFileSystemEvent
    /\ cleared' = {}
    /\ UNCHANGED <<fsVars, remotes, remotesStale>>
    /\ UNCHANGED <<supportsChangeEvents, lateVars, closed, watchVars, fetchedVars>>

\* an operation that goes through runTerminalCommand, from call to return
RunTerminal(name) ==
    /\ LET r == RunTerminalCommand(supportsChangeEvents)
       IN  /\ settled' = [NoSettled EXCEPT !.name = name, !.command = r.command,
                                           !.how = r.how, !.changes = r.changes]
           /\ Record(r.changes)
           /\ fired' = r.changes
    /\ call' = NoCall
    /\ op' = "runTerminalCommand"
    /\ uri' = NullUri
    /\ delivered' = NoEvent
    /\ deliveredFs' = NoFileSystemEvent
    /\ cleared' = {}
    /\ UNCHANGED <<fsVars, cacheVars, inFlight>>
    /\ UNCHANGED <<supportsChangeEvents, lateVars, closed, watchVars, fetchedVars>>

(***************************************************************************)
(* The flushes run on their own (as a caller holding the repository could  *)
(* run them), whatever the debounce timers' state                          *)
(***************************************************************************)

\* fireChangeCore()
FlushChange ==
    /\ RunFireChangeCore
    /\ op' = "fireChangeCore"
    /\ UNCHANGED <<fireChangeDebounced, fsVars, cacheVars, serviceVars>>

\* fireFileSystemChangeCore(), up to its await
FlushFileSystem ==
    /\ RunFireFileSystemChangeCore
    /\ Ran("fireFileSystemChangeCore", NullUri)
    /\ UNCHANGED <<engineVars, fireFileSystemChangeDebounced, cacheVars, historyVars, serviceVars>>

(***************************************************************************)
(* Specifications                                                          *)
(***************************************************************************)

\* the uris the watcher reports in Spec
WatchedUris ==
    { NullUri,
      <<"repo", ".git", "config">>,
      <<"repo", ".git", "refs", "heads", "main">>,
      <<"repo", ".git", "refs", "remotes", "origin", "main">> }

Next ==
    \/ \E u \in WatchedUris : OnRepositoryChanged(u)
    \/ Suspend
    \/ Resume
    \/ Advance
    \/ ChangeTimerElapsed

Spec == Init /\ [][Next]_vars

\* the engine with the caches' readers
CacheNext ==
    \/ \E u \in WatchedUris \ {NullUri} : OnRepositoryChanged(u)
    \/ GetBranch
    \/ GetRemotes
    \/ \E which \in {"current", "discarded"} : RemotesResolved(which)
    \/ Suspend
    \/ Resume
    \/ FlushChange

CacheSpec == Init /\ [][CacheNext]_vars

\* the working-tree side
FileSystemNext ==
    \/ \E u \in FileSystemUris : OnFileSystemChanged(u)
    \/ Suspend
    \/ Resume
    \/ Advance
    \/ FileSystemTimerElapsed
    \/ \E i \in 1..MaxUris : ExcludeIgnoredUrisDone(i)

FileSystemSpec == Init /\ [][FileSystemNext]_vars

\* the uris the watcher reports in FlushSpec
FlushUris ==
    { <<"repo", ".git", "config">>,
      <<"repo", ".git", "refs", "remotes", "origin", "main">> }

\* both coalescers with their flushes run at any moment: as the callback of
\* a timer that has run out, or on their own
FlushNext ==
    \/ \E u \in FlushUris : OnRepositoryChanged(u)
    \/ \E u \in FileSystemUris : OnFileSystemChanged(u)
    \/ Suspend
    \/ Resume
    \/ \E i \in 1..MaxUris : ExcludeIgnoredUrisDone(i)
    \/ FlushChange
    \/ FlushFileSystem

FlushSpec == Init /\ [][FlushNext]_vars

\* the directory and file names generated uris are made of
DirSegments == {".git", "sub.git", "refs", "heads", "remotes", "tags", "main"}

FileSegments ==
    {"config", "index", "HEAD", "ORIG_HEAD", "stash", ".gitignore", "main",
     "heads", "headstone", "remotes", "tags"}

\* every uri of at most MaxDepth directories and a file, and the absent uri
GeneratedUris ==
    {NullUri} \cup {Append(d, f) : d \in SeqsUpTo(DirSegments, MaxDepth), f \in FileSegments}

\* the classifier alone: the first notification, for any uri, then its flush
ClassifyInit == Init /\ ~suspended

ClassifyNext ==
    \/ ~called /\ \E u \in GeneratedUris : OnRepositoryChanged(u)
    \/ Advance
    \/ ChangeTimerElapsed

ClassifySpec == ClassifyInit /\ [][ClassifyNext]_vars

\* the engine with a subscriber of onDidChange that sets closed on delivery
DeliveryNext ==
    \/ OnRepositoryChanged(<<"repo", ".git", "config">>)
    \/ \E value \in BOOLEAN : SetClosed(value)
    \/ Suspend
    \/ Resume
    \/ Advance
    \/ ChangeTimerElapsed
    \/ \E value \in BOOLEAN : DeliverToSubscriber(value)

DeliverySpec == Init /\ [][DeliveryNext]_vars

\* the working-tree watcher under its subscriptions
WatchNext ==
    \/ StartWatchingFileSystem
    \/ \E h \in 1..MaxHandles : DisposeHandle(h)
    \/ \E u \in FileSystemUris : WatcherReports(u)
    \/ Suspend
    \/ Resume
    \/ FlushFileSystem
    \/ \E i \in 1..MaxUris : ExcludeIgnoredUrisDone(i)

WatchSpec == Init /\ [][WatchNext]_vars

\* getLastFetched among the watcher's notifications
LastFetchedNext ==
    \/ GetLastFetched
    \/ \E hasRemotes, isMaybeGuest \in BOOLEAN : HasRemotesDone(hasRemotes, isMaybeGuest)
    \/ \E outcome \in StatOutcomes : StatDone(outcome)
    \/ \E which \in {"current", "discarded"} : RemotesResolved(which)
    \/ \E u \in FlushUris : OnRepositoryChanged(u)
    \/ FlushChange

LastFetchedSpec == Init /\ [][LastFetchedNext]_vars

\* a holder of an event of the repository asks changed(change, true) and
\* changed(change) of it
AskChanged(changes, change) ==
    /\ asked' = [defined |-> TRUE, changes |-> changes, change |-> change,
                 only |-> Changed(changes, supportsChangeEvents, change, TRUE),
                 any |-> Changed(changes, supportsChangeEvents, change, FALSE)]
    /\ Ran("changed", NullUri)
    /\ UNCHANGED <<engineVars, fsVars, cacheVars, historyVars>>
    /\ UNCHANGED <<supportsChangeEvents, closed, watchVars, fetchedVars, opVars>>
    /\ UNCHANGED <<disposed, remoteSubscriptions>>

\* the repository and its watchers up to and after dispose(); nothing
\* subscribes to a repository that was disposed
DisposeNext ==
    \/ RepositoryWatcherReports(<<"repo", ".git", "config">>)
    \/ ~disposed /\ StartWatchingFileSystem
    \/ \E u \in FileSystemUris : WatcherReports(u)
    \/ Dispose
    \/ Advance
    \/ ChangeTimerElapsed
    \/ FileSystemTimerElapsed
    \/ \E i \in 1..MaxUris : ExcludeIgnoredUrisDone(i)

DisposeSpec == Init /\ [][DisposeNext]_vars

\* changed(...) on its own, for every event and every category
ChangedNext ==
    \E changes \in EventChanges : \E change \in RepositoryChange : AskChanged(changes, change)

ChangedSpec == Init /\ [][ChangedNext]_vars

\* the mutating operations, one at a time
OpsNext ==
    \/ \E name \in CoreOps \cup StashOps : \E options \in OptionsOf(name) :
           inFlight = <<>> /\ Call(name, options)
    \/ \E i \in 1..MaxInFlight :
           i <= Len(inFlight) /\ \E env \in EnvsOf(inFlight[i].name) : Settle(i, env)
    \/ \E name \in TerminalOps : RunTerminal(name)
    \/ FlushChange

OpsSpec == Init /\ [][OpsNext]_vars

\* calls of gated operations while others are in flight
GateNext ==
    \/ \E name \in {"fetch", "pull", "stashApply"} : \E options \in OptionsOf(name) :
           Call(name, options)
    \/ \E i \in 1..MaxInFlight :
           i <= Len(inFlight) /\ \E env \in EnvsOf(inFlight[i].name) : Settle(i, env)

GateSpec == Init /\ [][GateNext]_vars

\* the engine under the event loop's scheduling: time passes, and a timer
\* that has run out has its callback run
FairSpec ==
    /\ Init
    /\ [][Next]_vars
    /\ WF_vars(Advance)
    /\ WF_vars(ChangeTimerElapsed)

(***************************************************************************)
(* Properties of the change coalescer                                      *)
(***************************************************************************)

\* C1: the event a flush publishes carries exactly the categories passed to
\* fireChange since the previous flush (their union: none missing, none
\* extra), each once, whatever the order and repetition of the calls.
C1_FlushedUnion ==
    [][delivered'.defined =>
          /\ Range(delivered'.changes) = recorded
          /\ Distinct(delivered'.changes)]_vars

\* C1 witness: a flush on a repository never suspended since the burst's last
\* call publishes the union of three calls, the config call made last.
C1_Witness ==
    /\ delivered.defined
    /\ ~gated
    /\ delivered.changes = <<"unknown", "heads", "config", "remotes">>

\* C2: no event is published on onDidChange or onDidChangeFileSystem while
\* the repository is suspended.
C2_NoFlushWhileSuspended ==
    (delivered.defined \/ deliveredFs.defined) => ~suspended

\* C3: the categories recorded during a suspension leave the accumulator in
\* one event, published once the repository is resumed, that holds them all.
C3_OneEventPerSuspension ==
    [][(delivered'.defined /\ heldBack # {}) =>
          /\ ~suspended
          /\ heldBack \subseteq Range(delivered'.changes)]_vars

\* C4: resume() on a suspended repository with a pending accumulator
\* publishes that accumulator within the resume() step itself.
C4_ResumeFlushesNow ==
    [][(op' = "resume" /\ suspended /\ pendingRepoChange.defined) =>
          /\ delivered' = pendingRepoChange
          /\ ~pendingRepoChange'.defined]_vars

\* a step that takes categories out of the accumulator publishes all of it
NoDiscard ==
    (pendingRepoChange.defined /\
        ~(Range(pendingRepoChange.changes) \subseteq Range(pendingRepoChange'.changes)))
    => delivered' = pendingRepoChange

\* the repository is eventually left un-suspended
LeftUnsuspended == <>[](~suspended)

\* an armed timer eventually fires (no endless stream of calls resets it)
TimersFire == fireChangeDebounced.armed ~> ~fireChangeDebounced.armed

\* C5: no step discards a non-empty accumulator without publishing it, and
\* when the repository is eventually left un-suspended and armed timers
\* eventually fire, every recorded category is eventually in a published event.
C5_NoChangeLost ==
    /\ [][NoDiscard]_vars
    /\ (LeftUnsuspended /\ TimersFire) =>
           \A c \in {"config", "remotes", "heads", "unknown"} :
               (c \in recorded) ~> (delivered.defined /\ c \in Range(delivered.changes))

\* C5 witness: categories recorded while suspended have been published after
\* the repository was resumed.
C5_Witness ==
    /\ delivered.defined
    /\ ~suspended
    /\ gated
    /\ Len(delivered.changes) >= 2

\* C6: on a repository not suspended since the previous fireChange call, a
\* call less than one window after the previous one finds that call's
\* categories still unpublished; a call more than one window after it finds
\* them published, alone, in one event; and an event is published exactly one
\* window after the last call.
C6_TrailingEdge ==
    [][/\ (fired' # <<>> /\ called /\ ~gated /\ ~suspended) =>
            /\ sinceCall < ChangeWait => (pubsSinceCall = 0 /\ pendingRepoChange.defined)
            /\ sinceCall > ChangeWait => (pubsSinceCall = 1 /\ ~pendingRepoChange.defined)
       /\ (delivered'.defined /\ ~gated) => sinceCall = ChangeWait]_vars

\* C6 witness: two calls half a window apart have been published in one
\* event, one window after the second.
C6_Witness ==
    /\ delivered.defined
    /\ ~gated
    /\ sinceCall = ChangeWait
    /\ delivered.changes = <<"heads", "unknown">>

\* C7: a run of fireChangeCore, or of fireFileSystemChangeCore, that finds
\* its accumulator absent fires no event and changes nothing of the
\* repository's state.
C7_EmptyFlushIsNoOp ==
    [][/\ (op' = "fireChangeCore" /\ ~pendingRepoChange.defined) =>
            /\ ~delivered'.defined
            /\ UNCHANGED <<engineVars, fsVars, cacheVars>>
       /\ (op' = "fireFileSystemChangeCore" /\ ~pendingFileSystemChange.defined) =>
            /\ ~deliveredFs'.defined
            /\ UNCHANGED <<engineVars, fsVars, cacheVars>>]_vars

\* C7 witness: fireChangeCore has run right after the flush that published
\* the accumulator, and has fired nothing.
C7_Witness ==
    /\ op = "fireChangeCore"
    /\ ~delivered.defined
    /\ ~pendingRepoChange.defined
    /\ pubsSinceCall = 1

\* C8: an accumulator that exists is non-empty, the change accumulator holds
\* no category twice, and so does every event fired on onDidChange.
C8_AccumulatorsNonEmpty ==
    /\ pendingRepoChange.defined =>
           (Len(pendingRepoChange.changes) >= 1 /\ Distinct(pendingRepoChange.changes))
    /\ pendingFileSystemChange.defined => Len(pendingFileSystemChange.uris) >= 1
    /\ delivered.defined => (Len(delivered.changes) >= 1 /\ Distinct(delivered.changes))

\* C8 witness: an event in which a category recorded by two calls appears
\* once has been fired while file locations are pending.
C8_Witness ==
    /\ delivered.defined
    /\ delivered.changes = <<"remotes", "config">>
    /\ pendingFileSystemChange.defined

(***************************************************************************)
(* Properties of the classifier                                            *)
(***************************************************************************)

\* the uri ends in one of the files the classifier tests by name
EndsInNamedFile(u) ==
    \/ \E name \in {"config", "index", "HEAD", "ORIG_HEAD"} : EndsWithGitFile(u, name)
    \/ EndsWithRefsStash(u)
    \/ u[Len(u)] = ".gitignore"

\* the kind of refs directory the classifier sees starting at segment i
RefsAt(u, i) ==
    IF i + 2 <= Len(u) /\ EndsWithDotGit(u[i]) /\ u[i + 1] = "refs"
    THEN RefsDir(u[i + 2]) ELSE "none"

\* the uri is a path under .git/refs/<dir>/, and no refs directory of
\* another kind comes before that one on the path
UnderRefs(u, dir) ==
    \E i \in 1..(Len(u) - 3) :
        /\ u[i] = ".git" /\ u[i + 1] = "refs" /\ u[i + 2] = dir
        /\ \A j \in 1..(i - 1) : RefsAt(u, j) \in {"none", dir}

\* the uri matches no rule of the classifier
MatchesNoRule(u) ==
    /\ ~EndsInNamedFile(u)
    /\ \A i \in 1..Len(u) : RefsAt(u, i) = "none"

\* C9 as stated, read in the claim's favour (the refs rules taken for paths
\* that end in none of the files tested by name): .git/config gives {config,
\* remotes}, a path under .git/refs/heads/ gives {heads}, a path under
\* .git/refs/remotes/ gives {remotes, heads}, a path matching no rule and the
\* absent path give {unknown}.
C9_ClassifierAsStated ==
    op = "onRepositoryChanged" =>
        /\ uri = NullUri => Range(fired) = {"unknown"}
        /\ uri # NullUri =>
            /\ EndsWithGitFile(uri, "config") => Range(fired) = {"config", "remotes"}
            /\ (~EndsInNamedFile(uri) /\ UnderRefs(uri, "heads")) =>
                   Range(fired) = {"heads"}
            /\ (~EndsInNamedFile(uri) /\ UnderRefs(uri, "remotes")) =>
                   Range(fired) = {"remotes", "heads"}
            /\ MatchesNoRule(uri) => Range(fired) = {"unknown"}

\* C9 amended: a path under .git/refs/remotes/ gives {remotes} alone; the
\* rest as stated, the refs rules for paths that end in none of the files
\* tested by name and whose first refs directory is the one named.
C9_ClassifierTable ==
    op = "onRepositoryChanged" =>
        /\ uri = NullUri => fired = <<"unknown">>
        /\ uri # NullUri =>
            /\ EndsWithGitFile(uri, "config") => fired = <<"config", "remotes">>
            /\ (~EndsInNamedFile(uri) /\ UnderRefs(uri, "heads")) =>
                   fired = <<"heads">>
            /\ (~EndsInNamedFile(uri) /\ UnderRefs(uri, "remotes")) =>
                   fired = <<"remotes">>
            /\ MatchesNoRule(uri) => fired = <<"unknown">>

\* C9 witness: a notification for a file under .git/refs/remotes/ has been
\* classified.
C9_Witness ==
    /\ op = "onRepositoryChanged"
    /\ uri = <<".git", "refs", "remotes", "main">>
    /\ pendingRepoChange.changes = <<"remotes">>

\* C10: the step that records config, heads or remotes for a watcher
\* notification leaves the caches that category outdates empty, and no cache
\* ever holds a value read before such a notification: not during the
\* debounce window, and not when the event is fired.
C10_InvalidatedWithClassification ==
    /\ op = "onRepositoryChanged" =>
        /\ Outdates(fired, "branch") => branch = "undefined"
        /\ Outdates(fired, "remotes") => remotes = "undefined"
    /\ ~branchStale
    /\ ~remotesStale

\* C10 witness: a notification under .git/refs/remotes/ has emptied both
\* caches, each of which held a value, in the step that recorded remotes.
C10_Witness ==
    /\ op = "onRepositoryChanged"
    /\ fired = <<"remotes">>
    /\ cleared = {"branch", "remotes"}
    /\ pendingRepoChange.defined

(***************************************************************************)
(* Properties of fireChange under suspension and of its callback           *)
(***************************************************************************)

\* C17 as stated: while the repository is suspended, a fireChange call merges
\* its categories into the accumulator and arms the debounce timer at the
\* full window, as when not suspended.
C17_SuspendedStillArms ==
    [][(fired' # <<>> /\ suspended) =>
          /\ pendingRepoChange' =
                 RepositoryChangeEvent(Merge(pendingRepoChange.changes, fired'))
          /\ fireChangeDebounced'.armed
          /\ fireChangeDebounced'.remaining = ChangeWait]_vars

\* C17 amended: while the repository is suspended, a fireChange call merges
\* its categories into the accumulator and leaves the debounce timer as it
\* is, neither arming nor resetting it; resume() on a suspended repository
\* with an accumulator arms the timer at the full window.
C17_SuspendedOnlyAccumulates ==
    [][/\ (fired' # <<>> /\ suspended) =>
            /\ pendingRepoChange' =
                   RepositoryChangeEvent(Merge(pendingRepoChange.changes, fired'))
            /\ fireChangeDebounced'.armed = fireChangeDebounced.armed
            /\ fireChangeDebounced'.remaining = fireChangeDebounced.remaining
       /\ (op' = "resume" /\ suspended /\ pendingRepoChange.defined) =>
            /\ fireChangeDebounced'.armed
            /\ fireChangeDebounced'.remaining = ChangeWait]_vars

\* C17 witness: a fireChange call on a suspended repository has added a
\* category to the accumulator while the timer armed before the suspension
\* kept running, half of its window gone.
C17_Witness ==
    /\ fired # <<>>
    /\ suspended
    /\ Len(pendingRepoChange.changes) >= 2
    /\ fireChangeDebounced.armed
    /\ fireChangeDebounced.remaining = ChangeWait - Tick

\* C19: every fireChange call hands onAnyRepositoryChanged one event, holding
\* the categories of that call and not the accumulator's, suspended or not,
\* in a step that fires nothing on onDidChange; no other step calls it.
C19_AnyRepositoryChangedPerCall ==
    [][/\ fired' # <<>> =>
            /\ notified' = <<RepositoryChangeEvent(fired')>>
            /\ ~delivered'.defined
       /\ fired' = <<>> => notified' = <<>>]_vars

\* C19 witness: on a suspended repository whose accumulator already held
\* another category, the callback has been handed the call's two categories.
C19_Witness ==
    /\ suspended
    /\ notified = <<RepositoryChangeEvent(<<"config", "remotes">>)>>
    /\ Len(pendingRepoChange.changes) = 3

(***************************************************************************)
(* Properties of the working-tree events                                   *)
(***************************************************************************)

\* the uri lies inside the .git control directory
InsideGitDir(u) == \E i \in 1..Len(u) : u[i] = ".git"

\* the uris of a batch that no ignore rule matches, in the batch's order
Kept(batch) == SelectSeq(batch, LAMBDA u : ~IsIgnored(u))

\* C14: every event fired on onDidChangeFileSystem carries at least one
\* location, none inside .git and none ignored; locations are recorded at the
\* end of the accumulator, a flush takes the accumulator whole and leaves it
\* absent, and the event of a batch carries the batch's locations that are
\* not ignored, in the batch's order; a batch whose locations are all ignored
\* is dropped without an event.
C14_FileSystemEventFiltered ==
    [][/\ deliveredFs'.defined =>
            /\ Len(deliveredFs'.uris) >= 1
            /\ \A i \in 1..Len(deliveredFs'.uris) :
                   ~InsideGitDir(deliveredFs'.uris[i]) /\ ~IsIgnored(deliveredFs'.uris[i])
       /\ op' = "onFileSystemChanged" =>
            IF InsideGitDir(uri')
            THEN pendingFileSystemChange' = pendingFileSystemChange
            ELSE pendingFileSystemChange'.uris = Append(pendingFileSystemChange.uris, uri')
       /\ (op' = "fireFileSystemChangeCore" /\ pendingFileSystemChange.defined) =>
            /\ ~pendingFileSystemChange'.defined
            /\ excluding' = Append(excluding, pendingFileSystemChange.uris)
            /\ ~deliveredFs'.defined
       /\ op' = "excludeIgnoredUris" =>
            \E i \in 1..Len(excluding) :
                /\ excluding' = RemoveAt(excluding, i)
                /\ deliveredFs'.uris = Kept(excluding[i])
                /\ deliveredFs'.defined = (Kept(excluding[i]) # <<>>)]_vars

\* C14 witness: an event carrying two locations, in the order the watcher
\* reported them, has been fired.
C14_Witness ==
    /\ op = "excludeIgnoredUris"
    /\ deliveredFs.defined
    /\ deliveredFs.uris = <<(<<"repo", "src", "b.ts">>), (<<"repo", "src", "a.ts">>)>>

(***************************************************************************)
(* Properties of the published event                                       *)
(***************************************************************************)

\* C18: the accumulator is never an event object already fired, so no later
\* fireChange call pushes into a fired event; and when a subscriber calls
\* fireChange during the delivery of an event, that event is the accumulator
\* as it was before the flush, the subscriber's categories make a new
\* accumulator of their own, and on a repository not suspended the timer is
\* armed at the full window for it.
C18_FiredEventIsImmutable ==
    [][/\ ~aliased'
       /\ (delivered'.defined /\ fired' # <<>>) =>
            /\ delivered' = pendingRepoChange
            /\ pendingRepoChange' = RepositoryChangeEvent(fired')
            /\ ~suspended =>
                   (fireChangeDebounced'.armed /\ fireChangeDebounced'.remaining = ChangeWait)]_vars

\* C18 witness: while an event holding config and remotes was delivered, a
\* subscriber has recorded closed, which is now alone in a new accumulator
\* with the timer armed for it.
C18_Witness ==
    /\ op = "fireChangeCore"
    /\ delivered = RepositoryChangeEvent(<<"config", "remotes">>)
    /\ fired = <<"closed">>
    /\ pendingRepoChange = RepositoryChangeEvent(<<"closed">>)
    /\ fireChangeDebounced.armed

(***************************************************************************)
(* Properties of the working-tree watcher's subscriptions                  *)
(***************************************************************************)

\* C15: the working-tree watcher exists exactly when one of the handles
\* startWatchingFileSystem returned has not been disposed.
C15_WatchingWhileSubscribed ==
    fsWatcherDisposable = (\E h \in 1..Len(handles) : handles[h] = "live")

(***************************************************************************)
(* Properties of getLastFetched                                            *)
(***************************************************************************)

\* C16: a getLastFetched call whose stat fails resolves to 0 and leaves
\* nothing cached, whatever was cached; a call that finds nothing cached and
\* no remotes resolves to 0 without a stat; a call whose stat finds an empty
\* file leaves the cache as it is and resolves to the cached time, or to 0
\* with nothing cached; and every call resolves to a number.
C16_LastFetchedNeverFails ==
    [][/\ (op' = "stat" /\ ~stat'.ok) =>
            /\ lastFetchedResult' = Time(0)
            /\ ~lastFetched'.defined
       /\ (op' = "hasRemotes" /\ lastFetchedCall' = "idle") =>
            /\ lastFetchedResult' = Time(0)
            /\ ~stat'.called
            /\ UNCHANGED lastFetched
       /\ (op' = "stat" /\ stat'.ok /\ stat'.size = 0) =>
            /\ UNCHANGED lastFetched
            /\ lastFetchedResult' = Time(OrZero(lastFetched))
       /\ (lastFetchedCall # "idle" /\ lastFetchedCall' = "idle") =>
            lastFetchedResult'.defined]_vars

\* C16 witness: with a time cached, the stat of a getLastFetched call has
\* failed: the call resolved to 0 and nothing is cached.
C16_Witness ==
    /\ op = "stat"
    /\ ~stat.ok
    /\ lastFetchedResult = Time(0)
    /\ ~lastFetched.defined
    /\ stat.cached

(***************************************************************************)
(* Properties of the mutating operations                                   *)
(***************************************************************************)

\* the invocations in flight of the operation last called, with its arguments
SameInFlight ==
    {i \in 1..Len(inFlight) :
        inFlight[i].name = call'.name /\ inFlight[i].options = call'.options}

\* C11: a call of a gated operation while an invocation of the same
\* operation with the same arguments is in flight starts no new invocation
\* and gets the one in flight; no two invocations of one operation with the
\* same arguments are ever in flight; and a call with no invocation of its
\* operation in flight starts a new one.
C11_GateCoalesces ==
    [][/\ (op' = "call" /\ SameInFlight # {}) =>
            (inFlight' = inFlight /\ call'.joined)
       /\ \A i, j \in 1..Len(inFlight') :
            (inFlight'[i] = inFlight'[j]) => i = j
       /\ (op' = "call" /\ \A i \in 1..Len(inFlight) : inFlight[i].name # call'.name) =>
            /\ ~call'.joined
            /\ inFlight' = Append(inFlight, [name |-> call'.name, options |-> call'.options])]_vars

\* C11 witness: pull({rebase: true}) has been called while an invocation of
\* pull({rebase: true}) and one of fetch were in flight, and has joined.
C11_Witness ==
    /\ op = "call"
    /\ call.joined
    /\ call.name = "pull"
    /\ call.options.rebase
    /\ Len(inFlight) = 2
    /\ inFlight[1] = [name |-> "pull", options |-> call.options]

\* an operation's delegate completed in the last step
DelegateCompleted == op \in {"settle", "runTerminalCommand"} /\ settled.how = "done"

\* C12 as stated: every mutating operation whose delegate completes records
\* unknown, whether the repository supports change events or not.
C12_SuccessRecordsUnknown ==
    DelegateCompleted => fired = <<"unknown">>

\* C12 amended: fetch, pull, push and switch record unknown when their
\* delegate completes, whether the repository supports change events or not;
\* the operations that send a git command to the terminal record unknown
\* only when the repository does not support change events; the stash
\* operations record stash, not unknown, and only when the repository does
\* not support change events.  What is recorded is in the accumulator.
C12_SuccessRecords ==
    DelegateCompleted =>
        /\ settled.name \in CoreOps => fired = <<"unknown">>
        /\ settled.name \in TerminalOps =>
               fired = IF supportsChangeEvents THEN <<>> ELSE <<"unknown">>
        /\ settled.name \in StashOps =>
               fired = IF supportsChangeEvents THEN <<>> ELSE <<"stash">>
        /\ Range(fired) \subseteq Range(pendingRepoChange.changes)

\* C12 witness: on a repository that does not support change events,
\* stashSave has completed and recorded stash next to an unknown already in
\* the accumulator.
C12_Witness ==
    /\ DelegateCompleted
    /\ settled.name = "stashSave"
    /\ ~supportsChangeEvents
    /\ pendingRepoChange.changes = <<"unknown", "stash">>

\* C13: when the delegate of a mutating operation fails, the operation
\* resolves, its catch having logged the failure and shown the generic
\* message, and records no category.
C13_FailuresStayInside ==
    (op = "settle" /\ ~settled.env.ok) =>
        (settled.how = "caught" /\ fired = <<>>)

\* C20: on a repository whose branch has a tracking branch, pull awaits the
\* pull-rebase command when its rebase option is set and the pull command
\* when it is not, with progress or without.
C20_PullHonoursRebase ==
    (op = "settle" /\ settled.name = "pull" /\ settled.env.tracking) =>
        settled.command = IF settled.options.rebase THEN "git.pullRebase" ELSE "git.pull"

(***************************************************************************)
(* Properties of RepositoryChangeEvent.changed                             *)
(***************************************************************************)

\* C21: for every event and every category, changed(category, true)
\* implies changed(category); and for the event [unknown] of a repository
\* that does not support change events the two give the same answer.
C21_ChangedModesConsistent ==
    /\ asked.only => asked.any
    /\ (asked.defined /\ ~supportsChangeEvents /\ asked.changes = <<"unknown">>) =>
           asked.only = asked.any

(***************************************************************************)
(* Properties of dispose                                                   *)
(***************************************************************************)

\* C22: once dispose() has been called no step fires an event on
\* _onDidChange or on _onDidChangeFileSystem, whatever timer was armed and
\* whatever was accumulated when it was called.
C22_NoEventAfterDispose ==
    disposed => (~delivered.defined /\ ~deliveredFs.defined)

\* C23: once dispose() has been called no working-tree watcher exists and
\* no onFileSystemChanged notification is handled, however many
\* startWatchingFileSystem() calls came before.
C23_DisposeReleasesWatcher ==
    disposed => (~fsWatcherDisposable /\ op # "onFileSystemChanged")

(***************************************************************************)
(* Properties of the remote providers' subscriptions                       *)
(***************************************************************************)

\* C24: _remotesDisposable never holds subscriptions made for a remote list
\* that has been dropped from the cache, and a subscribeToRemotes call that
\* assigns its subscriptions finds _remotesDisposable empty, so that no set
\* of subscriptions is overwritten undisposed.
C24_SubscriptionsFollowCache ==
    /\ [](remoteSubscriptions.disposable # "discarded")
    /\ [][op' = "subscribeToRemotes" => remoteSubscriptions.disposable = "none"]_vars

(***************************************************************************)
(* Properties of the file-system flush across its await                    *)
(***************************************************************************)

\* how many times the location occurs in the list
Occurrences(u, uris) == Cardinality({i \in 1..Len(uris) : uris[i] = u})

RECURSIVE OccurrencesIn(_, _)
OccurrencesIn(u, batches) ==
    IF batches = <<>> THEN 0
    ELSE Occurrences(u, Head(batches)) + OccurrencesIn(u, Tail(batches))

\* how many times the location is held, accumulated or awaiting the filter
Held(u, pending, batches) == Occurrences(u, pending.uris) + OccurrencesIn(u, batches)

\* the step published the i-th batch awaiting the filter
Published(i) ==
    /\ i \in 1..Len(excluding)
    /\ excluding' = RemoveAt(excluding, i)
    /\ deliveredFs'.uris = ExcludeIgnoredUris(excluding[i])

\* C25: every step keeps each location that no ignore rule matches held or
\* delivers it, once for each time it was recorded, and a step that
\* publishes a batch publishes it before no batch flushed earlier that is
\* still to be published.
C25_DeliveredOnceInOrder ==
    [][/\ \A u \in {v \in FileSystemUris : ~IsIgnored(v)} :
             Held(u, pendingFileSystemChange', excluding') + Occurrences(u, deliveredFs'.uris)
                 = Held(u, pendingFileSystemChange, excluding)
                       + (IF op' = "onFileSystemChanged" /\ uri' = u /\ ~IgnoreGitRegexTest(u)
                          THEN 1 ELSE 0)
       /\ (op' = "excludeIgnoredUris" /\ deliveredFs'.defined) =>
             \E i \in 1..Len(excluding) :
                 /\ Published(i)
                 /\ \A j \in 1..(i - 1) : ExcludeIgnoredUris(excluding[j]) = <<>>]_vars

=============================================================================
